---- MODULE Spec2Model ----
(***************************************************************************)
(* id-tree: an arena-backed tree addressed through NodeId handles.         *)
(*                                                                         *)
(* Two containers are modelled:                                            *)
(*   - VecTree (src/src/tree/vec_tree.rs), state variable core_tree;       *)
(*   - the older Tree (src/src/tree.rs), state variable tree.              *)
(* A container value is a record                                           *)
(*   [root, nodes, free_ids, fault]                                        *)
(* where nodes is the slot vector (Rust index i is nodes[i+1]), root is a  *)
(* slot index or None, free_ids the stack of vacated indices, and fault    *)
(* records that the call in progress aborted ("panic": an unwrap/expect or *)
(* panic! fired; "diverge": unbounded recursion).  Every helper is the     *)
(* identity on a value whose fault is set, so an aborted call keeps the    *)
(* links as they were when it aborted.                                     *)
(***************************************************************************)
EXTENDS Integers, Sequences, FiniteSets, TLC

\* ------------------------------------------------------------------ bounds
MaxSlots == 4
MaxForeignIndex == 4
MaxCalls == 5

\* --------------------------------------------------------------- constants
None == -1
Diverged == -2
Panicked == -3
TreeId == 1
OtherTreeId == 2
Payload == 5

\* ------------------------------------------------------------------ values
Vacant == [live |-> FALSE, data |-> 0, parent |-> None, children |-> <<>>]

NewNode(d) == [live |-> TRUE, data |-> d, parent |-> None, children |-> <<>>]

EmptyTree == [root |-> None, nodes |-> <<>>, free_ids |-> <<>>, fault |-> "none"]

NodeId(tid, i) == [tree_id |-> tid, index |-> i]

InRange(t, i) == i >= 0 /\ i < Len(t.nodes)

Live(t, i) == InRange(t, i) /\ t.nodes[i + 1].live

Ok(t) == t.fault = "none"

Panic(t) == IF Ok(t) THEN [t EXCEPT !.fault = "panic"] ELSE t

Diverge(t) == IF Ok(t) THEN [t EXCEPT !.fault = "diverge"] ELSE t

\* get_unsafe(id).parent()
parent(t, i) == IF Live(t, i) THEN t.nodes[i + 1].parent ELSE None

\* get_unsafe(id).children()
children(t, i) == IF Live(t, i) THEN t.nodes[i + 1].children ELSE <<>>

Range(s) == {s[k] : k \in 1..Len(s)}

Contains(s, x) == \E k \in 1..Len(s) : s[k] = x

\* Vec::retain(|c| c != x)
Retain(s, x) == SelectSeq(s, LAMBDA c : c # x)

\* Iterator::position(|c| c == x): the first index holding x, 0 if absent
Position(s, x) ==
    IF Contains(s, x) THEN CHOOSE k \in 1..Len(s) : s[k] = x /\ \A j \in 1..(k - 1) : s[j] # x
    ELSE 0

\* Vec::swap_remove(i): the last element takes the place of element i
swap_remove(s, i) ==
    LET n == Len(s) IN
    IF i + 1 = n THEN SubSeq(s, 1, n - 1)
    ELSE [k \in 1..(n - 1) |-> IF k = i + 1 THEN s[n] ELSE s[k]]

\* ------------------------------------------------------- node field access
\* get_mut_unsafe(id) followed by an assignment to one field; reaching a
\* vacant slot aborts
SetField(t, i, f, v) ==
    IF ~Ok(t) THEN t
    ELSE IF ~Live(t, i) THEN Panic(t)
    ELSE [t EXCEPT !.nodes[i + 1][f] = v]

\* get_unsafe(id): aborts on a vacant slot, otherwise leaves the tree alone
get_unsafe(t, i) == IF Ok(t) /\ ~Live(t, i) THEN Panic(t) ELSE t

node_set_parent(t, i, p) == SetField(t, i, "parent", p)

set_children(t, i, cs) == SetField(t, i, "children", cs)

add_child(t, i, c) == SetField(t, i, "children", Append(children(t, i), c))

take_children(t, i) == SetField(t, i, "children", <<>>)

replace_child(t, i, old, new) ==
    IF ~Ok(t) THEN t
    ELSE IF ~Live(t, i) \/ ~Contains(children(t, i), old) THEN Panic(t)
    ELSE LET cs == children(t, i)
             k == Position(cs, old)
         IN SetField(t, i, "children", [cs EXCEPT ![k] = new])

\* ------------------------------------------------------------- CoreTree
\* The arena store behind VecTree (super::core::CoreTree; its source file is
\* not part of src/, so it is modelled from section 4.1 of the specification).

\* index the next insertion will use: most recently freed, else a new slot
core_next_index(t) ==
    IF Len(t.free_ids) > 0 THEN t.free_ids[Len(t.free_ids)] ELSE Len(t.nodes)

core_insert(t, d) ==
    IF ~Ok(t) THEN t
    ELSE IF Len(t.free_ids) > 0
         THEN LET i == t.free_ids[Len(t.free_ids)]
              IN [t EXCEPT !.free_ids = SubSeq(t.free_ids, 1, Len(t.free_ids) - 1),
                           !.nodes[i + 1] = NewNode(d)]
         ELSE [t EXCEPT !.nodes = Append(t.nodes, NewNode(d))]

core_set_root(t, d) ==
    IF ~Ok(t) THEN t ELSE [core_insert(t, d) EXCEPT !.root = core_next_index(t)]

\* vacates the slot, pushes the index on free_ids, forgets the root if it
\* was the root; the caller (remove_node_internal) reads the node's links
core_remove(t, i) ==
    IF ~Ok(t) THEN t
    ELSE IF ~Live(t, i) THEN Panic(t)
    ELSE [t EXCEPT !.nodes[i + 1] = Vacant,
                   !.free_ids = Append(t.free_ids, i),
                   !.root = IF t.root = i THEN None ELSE t.root]

core_validate_node_id(t, h) ==
    IF h.tree_id # TreeId THEN "InvalidNodeIdForTree"
    ELSE IF ~InRange(t, h.index) THEN "Panic"
    ELSE IF ~t.nodes[h.index + 1].live THEN "NodeIdNoLongerValid"
    ELSE "Ok"

SetRoot(t, r) == IF Ok(t) THEN [t EXCEPT !.root = r] ELSE t

\* ---------------------------------------------------- VecTree: helpers
set_parent(t, node_id, new_parent) == node_set_parent(t, node_id, new_parent)

clear_parent(t, node_id) == set_parent(t, node_id, None)

RECURSIVE SetParentAll(_, _, _)
\* for child in children { get_mut_unsafe(child).set_parent(new_parent) }
SetParentAll(t, cs, new_parent) ==
    IF cs = <<>> THEN t
    ELSE SetParentAll(set_parent(t, Head(cs), new_parent), Tail(cs), new_parent)

set_parent_of_children(t, node_id, new_parent) ==
    SetParentAll(get_unsafe(t, node_id), children(t, node_id), new_parent)

clear_parent_of_children(t, node_id) == set_parent_of_children(t, node_id, None)

set_as_parent_and_child(t, parent_id, child_id) ==
    node_set_parent(add_child(t, parent_id, child_id), child_id, parent_id)

detach_from_parent(t, parent_id, node_id) ==
    set_children(t, parent_id, Retain(children(t, parent_id), node_id))

remove_node_internal(t, node_id) ==
    LET p  == parent(t, node_id)
        t1 == core_remove(t, node_id)
    IN IF p # None THEN set_children(t1, p, Retain(children(t1, p), node_id)) ELSE t1

RECURSIVE FindWalk(_, _, _, _)
\* the upward walk; fuel counts the recursive calls still allowed: after
\* more calls than there are slots the walk is inside a parent cycle that
\* does not contain upper_id and the recursion never returns
FindWalk(t, lower_id, upper_id, fuel) ==
    IF ~Live(t, lower_id) THEN Panicked
    ELSE LET lower_parent == parent(t, lower_id) IN
         IF lower_parent = None THEN None
         ELSE IF lower_parent = upper_id THEN lower_id
         ELSE IF fuel = 0 THEN Diverged
         ELSE FindWalk(t, lower_parent, upper_id, fuel - 1)

\* variant: a node counts as lying below itself
find_subtree_root_between_ids_inclusive(t, lower_id, upper_id) ==
    IF lower_id = upper_id THEN lower_id
    ELSE FindWalk(t, lower_id, upper_id, Len(t.nodes))

find_subtree_root_between_ids(t, lower_id, upper_id) ==
    FindWalk(t, lower_id, upper_id, Len(t.nodes))

\* a fault met while walking is a fault of the call
WalkFault(t, r) ==
    IF r = Diverged THEN Diverge(t) ELSE IF r = Panicked THEN Panic(t) ELSE t

\* ---------------------------------------------------- VecTree: insertion
\* variant: the old root is listed by the new node but keeps its parent link
set_root_parent_not_set(t, d) ==
    LET current_root == t.root
        new_root_id  == core_next_index(t)
        t1           == core_set_root(t, d)
    IN IF current_root # None
       THEN add_child(t1, new_root_id, current_root)
       ELSE t1

set_root(t, d) ==
    LET current_root == t.root
        new_root_id  == core_next_index(t)
        t1           == core_set_root(t, d)
    IN IF current_root # None
       THEN set_as_parent_and_child(t1, new_root_id, current_root)
       ELSE t1

\* variant: the parent lists the new node but the node's parent is not set
insert_with_parent_child_only(t, d, parent_id) ==
    add_child(core_insert(t, d), parent_id, core_next_index(t))

insert_with_parent(t, d, parent_id) ==
    set_as_parent_and_child(core_insert(t, d), parent_id, core_next_index(t))

\* ------------------------------------------------------ VecTree: removal
RECURSIVE LiftAll(_, _, _)
LiftAll(t, parent_id, cs) ==
    IF cs = <<>> THEN t
    ELSE LiftAll(set_as_parent_and_child(t, parent_id, Head(cs)), parent_id, Tail(cs))

\* variant: the children of a parentless node keep their parent link
remove_node_lift_children_no_else(t, node_id) ==
    LET p  == parent(t, node_id)
        t1 == IF p # None
              THEN LiftAll(get_unsafe(t, node_id), p, children(t, node_id))
              ELSE get_unsafe(t, node_id)
    IN remove_node_internal(t1, node_id)

remove_node_lift_children(t, node_id) ==
    LET p  == parent(t, node_id)
        t1 == IF p # None
              THEN LiftAll(get_unsafe(t, node_id), p, children(t, node_id))
              ELSE clear_parent_of_children(t, node_id)
    IN remove_node_internal(t1, node_id)

remove_node_orphan_children(t, node_id) ==
    remove_node_internal(clear_parent_of_children(t, node_id), node_id)

RECURSIVE remove_node_drop_children(_, _)
RECURSIVE DropAll(_, _)
remove_node_drop_children(t, node_id) ==
    IF ~Ok(t) THEN t
    ELSE LET cs == children(t, node_id)
             t1 == take_children(t, node_id)
         IN remove_node_internal(DropAll(t1, cs), node_id)

\* for child in children.drain(..) { self.remove_node_drop_children(child)?; }
DropAll(t, cs) ==
    IF cs = <<>> \/ ~Ok(t) THEN t
    ELSE DropAll(remove_node_drop_children(t, Head(cs)), Tail(cs))

\* --------------------------------------------------------- VecTree: move
move_node_to_parent(t, node_id, parent_id) ==
    LET subtree_root_id == find_subtree_root_between_ids(t, parent_id, node_id) IN
    IF ~Ok(t) THEN t
    ELSE IF subtree_root_id \in {Diverged, Panicked} THEN WalkFault(t, subtree_root_id)
    ELSE IF subtree_root_id # None
    THEN \* node_id is above parent_id: a move "down" the tree
         IF t.root = node_id
         THEN LET t1 == detach_from_parent(t, node_id, subtree_root_id)
                  t2 == clear_parent(t1, subtree_root_id)
                  t3 == SetRoot(t2, subtree_root_id)
              IN set_as_parent_and_child(t3, parent_id, node_id)
         ELSE LET old_parent == parent(t, node_id)
                  t1 == IF old_parent # None
                        THEN set_as_parent_and_child(
                                 detach_from_parent(t, old_parent, node_id),
                                 old_parent, subtree_root_id)
                        ELSE clear_parent(get_unsafe(t, node_id), subtree_root_id)
                  t2 == detach_from_parent(t1, node_id, subtree_root_id)
              IN set_as_parent_and_child(t2, parent_id, node_id)
    ELSE \* a move "across" or "up" the tree
         LET old_parent == parent(t, node_id)
             t1 == IF old_parent # None
                   THEN detach_from_parent(t, old_parent, node_id)
                   ELSE get_unsafe(t, node_id)
         IN set_as_parent_and_child(t1, parent_id, node_id)

move_node_to_root(t, node_id) ==
    LET old_root  == t.root
        parent_id == parent(t, node_id)
        t1 == IF parent_id # None THEN detach_from_parent(t, parent_id, node_id) ELSE t
        t2 == clear_parent(t1, node_id)
        t3 == SetRoot(t2, node_id)
    IN IF old_root # None THEN move_node_to_parent(t3, old_root, node_id) ELSE t3

\* --------------------------------------------------------- VecTree: swap
\* lower_upper_test: <<lower, upper>>, <<None, None>> when unrelated, or a
\* pair of fault codes when a walk does not return
lower_upper_test(t, first_id, second_id) ==
    LET r1 == find_subtree_root_between_ids(t, first_id, second_id) IN
    IF r1 \in {Diverged, Panicked} THEN <<r1, r1>>
    ELSE IF r1 # None THEN <<first_id, second_id>>
    ELSE LET r2 == find_subtree_root_between_ids(t, second_id, first_id) IN
         IF r2 \in {Diverged, Panicked} THEN <<r2, r2>>
         ELSE IF r2 # None THEN <<second_id, first_id>>
         ELSE <<None, None>>

\* variant: both positions end up holding second_id
swap_in_parent_one_write(t, parent_id, first_id, second_id) ==
    LET cs == children(t, parent_id)
        first_index  == Position(cs, first_id)
    IN IF ~Ok(t) THEN t
       ELSE IF ~Live(t, parent_id) \/ first_index = 0 THEN Panic(t)
       ELSE set_children(t, parent_id, [cs EXCEPT ![first_index] = second_id])

\* Vec::swap(i, j) on the children of parent_id, after locating both ids
swap_in_parent(t, parent_id, first_id, second_id) ==
    LET cs == children(t, parent_id)
        first_index  == Position(cs, first_id)
        second_index == Position(cs, second_id)
    IN IF ~Ok(t) THEN t
       ELSE IF ~Live(t, parent_id) \/ first_index = 0 \/ second_index = 0 THEN Panic(t)
       ELSE set_children(t, parent_id,
                [cs EXCEPT ![first_index] = cs[second_index],
                           ![second_index] = cs[first_index]])

\* variant: two parentless nodes exchange the root role, as LeaveChildren does
swap_nodes_take_children_root_role(t, first_id, second_id) ==
    LET lu == lower_upper_test(t, first_id, second_id)
        lower_id == lu[1]
        upper_id == lu[2]
    IN
    IF ~Ok(t) THEN t
    ELSE IF lower_id \in {Diverged, Panicked} THEN WalkFault(t, lower_id)
    ELSE IF lower_id # None
    THEN LET upper_parent_id == parent(t, upper_id)
             lower_parent_id == parent(t, lower_id)
             t1 == node_set_parent(t, lower_id, upper_parent_id)
             t2 == detach_from_parent(t1, lower_parent_id, lower_id)
             t3 == IF upper_parent_id # None
                   THEN replace_child(t2, upper_parent_id, upper_id, lower_id)
                   ELSE IF t2.root = upper_id THEN SetRoot(t2, lower_id) ELSE t2
             t4 == node_set_parent(t3, upper_id, lower_id)
         IN add_child(t4, lower_id, upper_id)
    ELSE \* just across
         LET first_parent_id  == parent(t, first_id)
             second_parent_id == parent(t, second_id)
         IN IF first_parent_id = second_parent_id
            THEN IF first_parent_id # None
                 THEN swap_in_parent(t, first_parent_id, first_id, second_id)
                 ELSE IF t.root = first_id THEN SetRoot(t, second_id)
                      ELSE IF t.root = second_id THEN SetRoot(t, first_id)
                      ELSE t
            ELSE IF first_parent_id = None \/ second_parent_id = None
                 THEN Panic(t)   \* .cloned().unwrap() on a parentless node
                 ELSE LET t1 == node_set_parent(t, first_id, second_parent_id)
                          t2 == node_set_parent(t1, second_id, first_parent_id)
                          t3 == replace_child(t2, first_parent_id, first_id, second_id)
                      IN replace_child(t3, second_parent_id, second_id, first_id)

swap_nodes_take_children(t, first_id, second_id) ==
    LET lu == lower_upper_test(t, first_id, second_id)
        lower_id == lu[1]
        upper_id == lu[2]
    IN
    IF ~Ok(t) THEN t
    ELSE IF lower_id \in {Diverged, Panicked} THEN WalkFault(t, lower_id)
    ELSE IF lower_id # None
    THEN LET upper_parent_id == parent(t, upper_id)
             lower_parent_id == parent(t, lower_id)
             t1 == node_set_parent(t, lower_id, upper_parent_id)
             t2 == detach_from_parent(t1, lower_parent_id, lower_id)
             t3 == IF upper_parent_id # None
                   THEN replace_child(t2, upper_parent_id, upper_id, lower_id)
                   ELSE IF t2.root = upper_id THEN SetRoot(t2, lower_id) ELSE t2
             t4 == node_set_parent(t3, upper_id, lower_id)
         IN add_child(t4, lower_id, upper_id)
    ELSE \* just across
         LET first_parent_id  == parent(t, first_id)
             second_parent_id == parent(t, second_id)
         IN IF first_parent_id = second_parent_id
            THEN IF first_parent_id # None
                 THEN swap_in_parent(t, first_parent_id, first_id, second_id)
                 ELSE t
            ELSE IF first_parent_id = None \/ second_parent_id = None
                 THEN Panic(t)   \* .cloned().unwrap() on a parentless node
                 ELSE LET t1 == node_set_parent(t, first_id, second_parent_id)
                          t2 == node_set_parent(t1, second_id, first_parent_id)
                          t3 == replace_child(t2, first_parent_id, first_id, second_id)
                      IN replace_child(t3, second_parent_id, second_id, first_id)

\* *children_mut().get_unchecked_mut(position(id).unwrap()) = new_id
put_at_position(t, parent_id, index, new_id) ==
    IF ~Ok(t) THEN t
    ELSE IF ~Live(t, parent_id) \/ index = 0 \/ index > Len(children(t, parent_id))
         THEN Panic(t)
    ELSE set_children(t, parent_id, [children(t, parent_id) EXCEPT ![index] = new_id])

\* variant: the two slots exchange their payloads and keep their links
swap_nodes_leave_children_by_payload(t, first_id, second_id) ==
    IF ~Ok(t) THEN t
    ELSE IF ~Live(t, first_id) \/ ~Live(t, second_id) THEN Panic(t)
    ELSE [t EXCEPT !.nodes[first_id + 1].data = t.nodes[second_id + 1].data,
                   !.nodes[second_id + 1].data = t.nodes[first_id + 1].data]

swap_nodes_leave_children(t, first_id, second_id) ==
    LET t1 == set_parent_of_children(t, first_id, second_id)
        t2 == set_parent_of_children(t1, second_id, first_id)
        first_children  == children(t2, first_id)
        second_children == children(t2, second_id)
        t3 == set_children(t2, first_id, second_children)
        t4 == set_children(t3, second_id, first_children)
        first_parent  == parent(t4, first_id)
        second_parent == parent(t4, second_id)
    IN
    IF ~Ok(t4) THEN t4
    ELSE IF first_parent # None /\ second_parent # None
    THEN LET first_index  == Position(children(t4, first_parent), first_id)
             second_index == Position(children(t4, second_parent), second_id)
             t5 == IF first_index = 0 \/ second_index = 0
                      \/ ~Live(t4, first_parent) \/ ~Live(t4, second_parent)
                   THEN Panic(t4)
                   ELSE put_at_position(t4, first_parent, first_index, second_id)
             t6 == put_at_position(t5, second_parent, second_index, first_id)
             t7 == node_set_parent(t6, first_id, second_parent)
         IN node_set_parent(t7, second_id, first_parent)
    ELSE IF first_parent # None
    THEN LET first_index == Position(children(t4, first_parent), first_id)
             t5 == put_at_position(t4, first_parent, first_index, second_id)
             t6 == node_set_parent(t5, first_id, None)
             t7 == node_set_parent(t6, second_id, first_parent)
         IN IF t7.root = second_id THEN SetRoot(t7, first_id) ELSE t7
    ELSE IF second_parent # None
    THEN LET second_index == Position(children(t4, second_parent), second_id)
             t5 == put_at_position(t4, second_parent, second_index, first_id)
             t6 == node_set_parent(t5, first_id, second_parent)
             t7 == node_set_parent(t6, second_id, None)
         IN IF t7.root = first_id THEN SetRoot(t7, second_id) ELSE t7
    ELSE IF t4.root = first_id THEN SetRoot(t4, second_id)
         ELSE IF t4.root = second_id THEN SetRoot(t4, first_id)
         ELSE t4

swap_nodes_children_only(t, first_id, second_id) ==
    LET lu == lower_upper_test(t, first_id, second_id)
        lower_id == lu[1]
        upper_id == lu[2]
        first_children  == children(t, first_id)
        second_children == children(t, second_id)
    IN
    IF ~Ok(t) THEN t
    ELSE IF lower_id \in {Diverged, Panicked} THEN WalkFault(t, lower_id)
    ELSE IF lower_id # None
    THEN LET lower_parent   == parent(t, lower_id)
             upper_children == IF upper_id = first_id THEN first_children ELSE second_children
             lower_children == IF upper_id = first_id THEN second_children ELSE first_children
             t1 == SetParentAll(t, upper_children, lower_id)
             t2 == SetParentAll(t1, lower_children, upper_id)
             kept == IF upper_id = lower_parent
                     THEN Retain(upper_children, lower_id)
                     ELSE upper_children
             t3 == set_children(t2, upper_id, lower_children)
             t4 == set_children(t3, lower_id, kept)
         IN set_as_parent_and_child(t4, upper_id, lower_id)
    ELSE LET t1 == SetParentAll(t, first_children, second_id)
             t2 == SetParentAll(t1, second_children, first_id)
             t3 == set_children(t2, first_id, second_children)
         IN set_children(t3, second_id, first_children)

\* ------------------------------------------------ VecTree: public surface
\* v is the outcome of the handle validation ("Ok", an error kind, or
\* "Panic" for an index outside the allocated range), t2 the tree the
\* algorithm produces when the validation passes
Outcome(v, t, t2) ==
    [tree |-> IF v = "Ok" THEN t2 ELSE IF v = "Panic" THEN Panic(t) ELSE t,
     res  |-> IF v = "Ok" THEN (IF Ok(t2) THEN "Ok" ELSE "Abort")
              ELSE IF v = "Panic" THEN "Abort" ELSE v]

insert(t, d, behavior, parent_id) ==
    IF behavior = "UnderNode"
    THEN Outcome(core_validate_node_id(t, parent_id), t,
                 insert_with_parent(t, d, parent_id.index))
    ELSE Outcome("Ok", t, set_root(t, d))

remove(t, node_id, behavior) ==
    Outcome(core_validate_node_id(t, node_id), t,
            IF behavior = "DropChildren" THEN remove_node_drop_children(t, node_id.index)
            ELSE IF behavior = "LiftChildren" THEN remove_node_lift_children(t, node_id.index)
            ELSE remove_node_orphan_children(t, node_id.index))

\* variant: the node is handed back with the links it had in the tree
removed_node_links_kept(t, node_id) == t.nodes[node_id + 1]

\* the node remove_node_internal hands back when called on tree t: the slot's
\* content with its children cleared and its parent unset
removed_node(t, node_id) ==
    LET node == t.nodes[node_id + 1]
    IN [[node EXCEPT !.children = <<>>] EXCEPT !.parent = None]

\* the tree as remove_node_internal finds it, for each RemoveBehavior
before_remove_node_internal(t, node_id, behavior) ==
    IF behavior = "DropChildren"
    THEN DropAll(take_children(t, node_id), children(t, node_id))
    ELSE IF behavior = "LiftChildren" /\ parent(t, node_id) # None
    THEN LiftAll(get_unsafe(t, node_id), parent(t, node_id), children(t, node_id))
    ELSE clear_parent_of_children(t, node_id)

\* the VecNode a successful remove returns
remove_returns(t, node_id, behavior) ==
    removed_node(before_remove_node_internal(t, node_id.index, behavior), node_id.index)

\* variant: the old parent is cut before parent_id is validated
move_node_late_validation(t, node_id, behavior, parent_id) ==
    LET v1 == core_validate_node_id(t, node_id) IN
    IF v1 # "Ok" THEN Outcome(v1, t, t)
    ELSE IF behavior = "ToRoot" THEN Outcome("Ok", t, move_node_to_root(t, node_id.index))
    ELSE LET old_parent == parent(t, node_id.index)
             cut == IF old_parent # None
                    THEN detach_from_parent(t, old_parent, node_id.index)
                    ELSE t
         IN Outcome(core_validate_node_id(t, parent_id), cut,
                    move_node_to_parent(t, node_id.index, parent_id.index))

move_node(t, node_id, behavior, parent_id) ==
    LET v1 == core_validate_node_id(t, node_id) IN
    IF v1 # "Ok" THEN Outcome(v1, t, t)
    ELSE IF behavior = "ToRoot" THEN Outcome("Ok", t, move_node_to_root(t, node_id.index))
    ELSE Outcome(core_validate_node_id(t, parent_id), t,
                 move_node_to_parent(t, node_id.index, parent_id.index))

swap_nodes(t, first_id, second_id, behavior) ==
    LET v1 == core_validate_node_id(t, first_id) IN
    IF v1 # "Ok" THEN Outcome(v1, t, t)
    ELSE Outcome(core_validate_node_id(t, second_id), t,
            IF behavior = "TakeChildren"
            THEN swap_nodes_take_children(t, first_id.index, second_id.index)
            ELSE IF behavior = "LeaveChildren"
            THEN swap_nodes_leave_children(t, first_id.index, second_id.index)
            ELSE swap_nodes_children_only(t, first_id.index, second_id.index))

\* ---------------------------------------------------- Tree (src/src/tree.rs)
\* variant: the slot is looked up before the tree tag is compared
tree_is_valid_node_id_slot_first(t, node_id) ==
    IF ~InRange(t, node_id.index) THEN "Panic"
    ELSE IF ~t.nodes[node_id.index + 1].live THEN "NodeIdNoLongerValid"
    ELSE IF node_id.tree_id # TreeId THEN "InvalidNodeIdForTree"
    ELSE "Ok"

tree_is_valid_node_id(t, node_id) ==
    IF node_id.tree_id # TreeId THEN "InvalidNodeIdForTree"
    ELSE IF ~InRange(t, node_id.index) THEN "Panic"
    ELSE IF ~t.nodes[node_id.index + 1].live THEN "NodeIdNoLongerValid"
    ELSE "Ok"

\* index of the NodeId insert_new_node returns
tree_new_index(t) ==
    IF Len(t.free_ids) > 0 THEN t.free_ids[Len(t.free_ids)] ELSE Len(t.nodes)

\* variant: the freed index is read with last() and stays on the free list
tree_insert_new_node_no_pop(t, d) ==
    IF ~Ok(t) THEN t
    ELSE IF Len(t.free_ids) > 0
         THEN LET new_node_id == t.free_ids[Len(t.free_ids)]
              IN [t EXCEPT !.nodes = swap_remove(Append(t.nodes, NewNode(d)), new_node_id)]
         ELSE [t EXCEPT !.nodes = Append(t.nodes, NewNode(d))]

tree_insert_new_node(t, d) ==
    IF ~Ok(t) THEN t
    ELSE IF Len(t.free_ids) > 0
         THEN LET new_node_id == t.free_ids[Len(t.free_ids)]
              IN [t EXCEPT !.free_ids = SubSeq(t.free_ids, 1, Len(t.free_ids) - 1),
                           !.nodes = swap_remove(Append(t.nodes, NewNode(d)), new_node_id)]
         ELSE [t EXCEPT !.nodes = Append(t.nodes, NewNode(d))]

\* get_mut(id).expect(..) / .unwrap() followed by a field assignment
tree_set_as_parent_and_child(t, parent_id, child_id) ==
    node_set_parent(add_child(t, parent_id, child_id), child_id, parent_id)

tree_clear_parent(t, node_id) == node_set_parent(t, node_id, None)

\* variant: the slot is taken out of the vector instead of being vacated
tree_remove_node_dirty_shrinks(t, node_id) ==
    IF ~Ok(t) THEN t
    ELSE IF ~Live(t, node_id) THEN Panic(t)
    ELSE [t EXCEPT !.nodes = swap_remove(t.nodes, node_id),
                   !.free_ids = Append(t.free_ids, node_id)]

tree_remove_node_dirty(t, node_id) ==
    IF ~Ok(t) THEN t
    ELSE IF ~Live(t, node_id) THEN Panic(t)
    ELSE [t EXCEPT !.nodes = swap_remove(Append(t.nodes, Vacant), node_id),
                   !.free_ids = Append(t.free_ids, node_id)]

tree_remove_node(t, node_id) ==
    LET p  == parent(t, node_id)
        t1 == tree_remove_node_dirty(t, node_id)
    IN IF p = None THEN t1
       ELSE IF Live(t1, p) THEN set_children(t1, p, Retain(children(t1, p), node_id))
       ELSE Panic(t1)

tree_set_root(t, d) ==
    LET new_root_id == tree_new_index(t)
        t1 == tree_insert_new_node(t, d)
        t2 == IF t.root # None
              THEN tree_set_as_parent_and_child(t1, new_root_id, t.root)
              ELSE t1
    IN SetRoot(t2, new_root_id)

tree_insert_with_parent(t, d, parent_id) ==
    Outcome(tree_is_valid_node_id(t, parent_id), t,
            tree_set_as_parent_and_child(tree_insert_new_node(t, d),
                                         parent_id.index, tree_new_index(t)))

tree_get(t, node_id) == Outcome(tree_is_valid_node_id(t, node_id), t, t)

tree_remove_node_orphan_children(t, node_id) ==
    Outcome(tree_is_valid_node_id(t, node_id), t,
            tree_remove_node(
                SetParentAll(t, children(t, node_id.index), None), node_id.index))

RECURSIVE TreeLiftAll(_, _, _)
\* for child_id in children { get_mut(child_id).unwrap().set_parent(Some(parent_id)) }
TreeLiftAll(t, cs, parent_id) ==
    IF cs = <<>> THEN t
    ELSE TreeLiftAll(node_set_parent(t, Head(cs), parent_id), Tail(cs), parent_id)

tree_remove_node_lift_children(t, node_id) ==
    IF tree_is_valid_node_id(t, node_id) # "Ok"
    THEN Outcome(tree_is_valid_node_id(t, node_id), t, t)
    ELSE IF parent(t, node_id.index) = None
    THEN tree_remove_node_orphan_children(t, node_id)
    ELSE Outcome("Ok", t,
            tree_remove_node(
                TreeLiftAll(t, children(t, node_id.index), parent(t, node_id.index)),
                node_id.index))

\* ------------------------------------------------------------------ state
VARIABLES
    core_tree,   \* the VecTree
    tree,        \* the Tree of src/src/tree.rs
    last,        \* the most recent public call: operation, arguments, outcome
    stale,       \* copies the caller kept of handles whose node it removed
    calls        \* number of public calls made so far

vars == <<core_tree, tree, last, stale, calls>>

NoHandle == NodeId(0, None)

NoCall == [op |-> "none", behavior |-> "none", first |-> NoHandle, second |-> NoHandle,
           res |-> "none", ret |-> None, bad |-> 0]

HandleErrors == {"InvalidNodeIdForTree", "NodeIdNoLongerValid"}

\* record of a Tree call: operation, arguments as given, outcome
Call(op, behavior, first, second, res, ret) ==
    [op |-> op, behavior |-> behavior, first |-> first, second |-> second,
     res |-> res, ret |-> ret, bad |-> 0]

\* record of a VecTree call.  A call that returned a handle error is
\* recorded by its operation, the error kind and the position (1 or 2) of
\* the rejected argument; any other call also by its arguments.
VecCall(t, op, behavior, first, second, res, ret) ==
    IF res \in HandleErrors
    THEN [op |-> op, behavior |-> behavior, first |-> NoHandle, second |-> NoHandle,
          res |-> res, ret |-> None,
          bad |-> IF core_validate_node_id(t, first) # "Ok" THEN 1 ELSE 2]
    ELSE [op |-> op, behavior |-> behavior, first |-> first, second |-> second,
          res |-> res, ret |-> ret, bad |-> 0]

\* handles a caller can present: those this tree issued (its tag, an index
\* of an allocated slot, live or not) and handles of another tree
OwnHandles(t) == {NodeId(TreeId, i) : i \in 0..(Len(t.nodes) - 1)}

ForeignHandle == NodeId(OtherTreeId, 0)

Handles(t) == OwnHandles(t) \cup {ForeignHandle}

ForeignHandles == {NodeId(OtherTreeId, i) : i \in 0..MaxForeignIndex}

\* the payload given to the next node: each slot index has its own value
NewPayload(t) == Payload + core_next_index(t)

HasRoom(t) == Len(t.nodes) < MaxSlots \/ Len(t.free_ids) > 0

\* VecTreeBuilder::build / TreeBuilder::build, without or with with_root
BuiltTrees == {EmptyTree, [EmptyTree EXCEPT !.root = 0, !.nodes = <<NewNode(Payload)>>]}

Init ==
    /\ core_tree \in BuiltTrees
    /\ tree = EmptyTree
    /\ last = NoCall
    /\ stale = {}
    /\ calls = 0

TreeInit ==
    /\ core_tree = EmptyTree
    /\ tree \in BuiltTrees
    /\ last = NoCall
    /\ stale = {}
    /\ calls = 0

\* ------------------------------------------------------- VecTree actions
InsertAsRoot ==
    /\ Ok(core_tree) /\ calls < MaxCalls /\ calls' = calls + 1 /\ HasRoom(core_tree)
    /\ LET o == insert(core_tree, NewPayload(core_tree), "AsRoot", NoHandle) IN
       /\ core_tree' = o.tree
       /\ last' = VecCall(core_tree, "insert", "AsRoot", NoHandle, NoHandle, o.res,
                       core_next_index(core_tree))
    /\ UNCHANGED <<tree, stale>>

InsertUnderNode ==
    /\ Ok(core_tree) /\ calls < MaxCalls /\ calls' = calls + 1 /\ HasRoom(core_tree)
    /\ \E h \in Handles(core_tree) :
         LET o == insert(core_tree, NewPayload(core_tree), "UnderNode", h) IN
         /\ core_tree' = o.tree
         /\ last' = VecCall(core_tree, "insert", "UnderNode", h, NoHandle, o.res,
                         IF o.res = "Ok" THEN core_next_index(core_tree) ELSE None)
    /\ UNCHANGED <<tree, stale>>

Remove ==
    /\ Ok(core_tree) /\ calls < MaxCalls /\ calls' = calls + 1
    /\ \E h \in Handles(core_tree) :
       \E b \in {"DropChildren", "LiftChildren", "OrphanChildren"} :
         LET o == remove(core_tree, h, b) IN
         /\ core_tree' = o.tree
         /\ last' = VecCall(core_tree, "remove", b, h, NoHandle, o.res,
                         IF o.res = "Ok" THEN remove_returns(core_tree, h, b) ELSE None)
    /\ UNCHANGED <<tree, stale>>

MoveToRoot ==
    /\ Ok(core_tree) /\ calls < MaxCalls /\ calls' = calls + 1
    /\ \E h \in Handles(core_tree) :
         LET o == move_node(core_tree, h, "ToRoot", NoHandle) IN
         /\ core_tree' = o.tree
         /\ last' = VecCall(core_tree, "move_node", "ToRoot", h, NoHandle, o.res, None)
    /\ UNCHANGED <<tree, stale>>

MoveToParent ==
    /\ Ok(core_tree) /\ calls < MaxCalls /\ calls' = calls + 1
    /\ \E h \in Handles(core_tree) : \E p \in Handles(core_tree) :
         LET o == move_node(core_tree, h, "ToParent", p) IN
         /\ core_tree' = o.tree
         /\ last' = VecCall(core_tree, "move_node", "ToParent", h, p, o.res, None)
    /\ UNCHANGED <<tree, stale>>

SwapNodes ==
    /\ Ok(core_tree) /\ calls < MaxCalls /\ calls' = calls + 1
    /\ \E a \in Handles(core_tree) : \E b \in Handles(core_tree) :
       \E m \in {"TakeChildren", "LeaveChildren", "ChildrenOnly"} :
         LET o == swap_nodes(core_tree, a, b, m) IN
         /\ core_tree' = o.tree
         /\ last' = VecCall(core_tree, "swap_nodes", m, a, b, o.res, None)
    /\ UNCHANGED <<tree, stale>>

Next ==
    \/ InsertAsRoot
    \/ InsertUnderNode
    \/ Remove
    \/ MoveToRoot
    \/ MoveToParent
    \/ SwapNodes

Spec == Init /\ [][Next]_vars

\* ---------------------------------------------------------- Tree actions
TreeHandles == OwnHandles(tree) \cup ForeignHandles

\* the caller keeps a copy of every handle whose node it removed
Kept(o, h) == IF o.res = "Ok" THEN stale \cup {h} ELSE stale

TreeSetRoot ==
    /\ Ok(tree) /\ calls < MaxCalls /\ calls' = calls + 1 /\ HasRoom(tree)
    /\ tree' = tree_set_root(tree, Payload)
    /\ last' = Call("set_root", "none", NoHandle, NoHandle,
                    IF Ok(tree_set_root(tree, Payload)) THEN "Ok" ELSE "Abort",
                    tree_new_index(tree))
    /\ UNCHANGED <<core_tree, stale>>

TreeInsertWithParent ==
    /\ Ok(tree) /\ calls < MaxCalls /\ calls' = calls + 1 /\ HasRoom(tree)
    /\ \E h \in TreeHandles :
         LET o == tree_insert_with_parent(tree, Payload, h) IN
         /\ tree' = o.tree
         /\ last' = Call("insert_with_parent", "none", h, NoHandle, o.res,
                         IF o.res = "Ok" THEN tree_new_index(tree) ELSE None)
    /\ UNCHANGED <<core_tree, stale>>

TreeGet ==
    /\ Ok(tree) /\ calls < MaxCalls /\ calls' = calls + 1
    /\ \E h \in TreeHandles :
         LET o == tree_get(tree, h) IN
         /\ tree' = o.tree
         /\ last' = Call("get", "none", h, NoHandle, o.res,
                         IF o.res = "Ok" THEN h.index ELSE None)
    /\ UNCHANGED <<core_tree, stale>>

TreeRemoveLift ==
    /\ Ok(tree) /\ calls < MaxCalls /\ calls' = calls + 1
    /\ \E h \in TreeHandles :
         LET o == tree_remove_node_lift_children(tree, h) IN
         /\ tree' = o.tree
         /\ last' = Call("remove_node_lift_children", "none", h, NoHandle, o.res, None)
         /\ stale' = Kept(o, h)
    /\ UNCHANGED core_tree

TreeRemoveOrphan ==
    /\ Ok(tree) /\ calls < MaxCalls /\ calls' = calls + 1
    /\ \E h \in TreeHandles :
         LET o == tree_remove_node_orphan_children(tree, h) IN
         /\ tree' = o.tree
         /\ last' = Call("remove_node_orphan_children", "none", h, NoHandle, o.res, None)
         /\ stale' = Kept(o, h)
    /\ UNCHANGED core_tree

TreeNext ==
    \/ TreeSetRoot
    \/ TreeInsertWithParent
    \/ TreeGet
    \/ TreeRemoveLift
    \/ TreeRemoveOrphan

TreeSpec == TreeInit /\ [][TreeNext]_vars

\* ------------------------------------------------------ shape predicates
LiveSet(t) == {i \in 0..(Len(t.nodes) - 1) : t.nodes[i + 1].live}

\* C is listed by P exactly when C names P as its parent
LinksConsistent(t) ==
    \A P \in LiveSet(t) : \A C \in LiveSet(t) :
        Contains(children(t, P), C) <=> parent(t, C) = P

RECURSIVE UpChain(_, _, _)
\* the nodes met by following parent links from n for at most k steps
\* (n itself excluded unless the chain comes back to it)
UpChain(t, n, k) ==
    IF k = 0 \/ ~Live(t, n) \/ parent(t, n) = None THEN {}
    ELSE {parent(t, n)} \cup UpChain(t, parent(t, n), k - 1)

Ancestors(t, n) == UpChain(t, n, Len(t.nodes))

NoParentCycle(t) == \A n \in LiveSet(t) : n \notin Ancestors(t, n)

RECURSIVE DownSet(_, _, _)
\* the nodes reachable from the set S through children lists in at most k steps
DownSet(t, S, k) ==
    IF k = 0 THEN {}
    ELSE LET kids == UNION {Range(children(t, n)) : n \in S}
         IN kids \cup DownSet(t, kids, k - 1)

Descendants(t, n) == DownSet(t, {n}, Len(t.nodes))

RootIsParentless(t) == t.root # None => Live(t, t.root) /\ parent(t, t.root) = None

AllReachRoot(t) ==
    t.root # None => \A n \in LiveSet(t) : n = t.root \/ t.root \in Ancestors(t, n)

NoDuplicateChildren(t) ==
    \A n \in LiveSet(t) : \A i, j \in 1..Len(children(t, n)) :
        children(t, n)[i] = children(t, n)[j] => i = j

NoDanglingLinks(t) ==
    /\ t.root # None => Live(t, t.root)
    /\ \A n \in LiveSet(t) :
         /\ parent(t, n) # None => Live(t, parent(t, n))
         /\ \A c \in Range(children(t, n)) : Live(t, c)

\* a forest with sound links; orphans (live parentless nodes other than the
\* root) are allowed
WellFormed(t) ==
    /\ Ok(t)
    /\ LinksConsistent(t)
    /\ NoParentCycle(t)
    /\ RootIsParentless(t)
    /\ NoDanglingLinks(t)
    /\ NoDuplicateChildren(t)

\* ---------------------------------------------------------- traversals
\* The iterators behind ancestors / ancestor_ids and traverse_*_order are
\* not part of src/; they are modelled from section 4.6 of the
\* specification.  A traversal is the sequence of slot indices it yields; a
\* walk that never ends is the sequence <<Diverged>>, and a walk that
\* reaches a vacant slot ends with Panicked.

RECURSIVE AncestorWalk(_, _, _)
\* follows parent links from n; after more steps than there are slots the
\* walk is inside a parent cycle and never ends
AncestorWalk(t, n, fuel) ==
    LET p == parent(t, n) IN
    IF p = None THEN <<>>
    ELSE IF ~Live(t, p) THEN <<Panicked>>
    ELSE IF fuel = 0 THEN <<Diverged>>
    ELSE <<p>> \o AncestorWalk(t, p, fuel - 1)

ancestor_ids(t, n) ==
    LET s == AncestorWalk(t, n, Len(t.nodes))
    IN IF Contains(s, Diverged) THEN <<Diverged>> ELSE s

\* some node at or below n lies on a cycle of children lists: a walk
\* through children lists from n never ends
ChildCycleBelow(t, n) ==
    \E x \in {n} \cup Descendants(t, n) : x \in Descendants(t, x)

RECURSIVE PreOrderWalk(_, _)
\* depth first: a node, then the subtrees of its children in list order
PreOrderWalk(t, ns) ==
    IF ns = <<>> THEN <<>>
    ELSE IF ~Live(t, Head(ns)) THEN <<Panicked>>
    ELSE <<Head(ns)>> \o PreOrderWalk(t, children(t, Head(ns))) \o PreOrderWalk(t, Tail(ns))

traverse_pre_order(t, n) ==
    IF ChildCycleBelow(t, n) THEN <<Diverged>> ELSE PreOrderWalk(t, <<n>>)

RECURSIVE PostOrderWalk(_, _)
\* depth first: the subtrees of a node's children in list order, then the node
PostOrderWalk(t, ns) ==
    IF ns = <<>> THEN <<>>
    ELSE IF ~Live(t, Head(ns)) THEN <<Panicked>>
    ELSE PostOrderWalk(t, children(t, Head(ns))) \o <<Head(ns)>> \o PostOrderWalk(t, Tail(ns))

traverse_post_order(t, n) ==
    IF ChildCycleBelow(t, n) THEN <<Diverged>> ELSE PostOrderWalk(t, <<n>>)

RECURSIVE LevelOrderWalk(_, _)
\* breadth first: a queue seeded with the start node; a visited node's
\* children join the back of the queue
LevelOrderWalk(t, queue) ==
    IF queue = <<>> THEN <<>>
    ELSE IF ~Live(t, Head(queue)) THEN <<Panicked>>
    ELSE <<Head(queue)>> \o LevelOrderWalk(t, Tail(queue) \o children(t, Head(queue)))

traverse_level_order(t, n) ==
    IF ChildCycleBelow(t, n) THEN <<Diverged>> ELSE LevelOrderWalk(t, <<n>>)

\* ------------------------------------------------------------------ claims

\* C1: after any sequence of successful public VecTree operations, for all
\* live nodes P and C, C is in P.children if and only if C.parent is P.
\* Stated for one call: a successful public operation applied to a tree
\* with sound links leaves every pair of live nodes consistently linked.
C1_LinkConsistency ==
    [][(WellFormed(core_tree) /\ last'.res = "Ok") => LinksConsistent(core_tree')]_vars

\* C2: whenever the VecTree root is present, the node it names is live and
\* has no parent.
C2_RootParentless == Ok(core_tree) => RootIsParentless(core_tree)

\* C3: whenever the VecTree root is present, every live node reaches the
\* root by following parent links.  Stated for one removal: a successful
\* remove applied to a tree with sound links in which every live node
\* reaches the root leaves every live node reaching the root.
C3_AllReachRoot ==
    [][(/\ WellFormed(core_tree) /\ AllReachRoot(core_tree)
        /\ last'.op = "remove" /\ last'.res = "Ok")
       => AllReachRoot(core_tree')]_vars

\* C4: a copy of a handle whose node was removed fails validation with
\* NodeIdNoLongerValid in every later state, also after the vacated slot
\* index has been reused by an insertion.
C4_StaleRejected ==
    Ok(tree) => \A h \in stale : tree_is_valid_node_id(tree, h) = "NodeIdNoLongerValid"

C6_ErrorLeavesTree ==
    [][(last'.op \in {"insert", "remove", "move_node", "swap_nodes"}
        /\ last'.res \in HandleErrors) => core_tree' = core_tree]_vars

\* the second handle of a two-handle call was the rejected one, in a tree
\* where the first handle's node has a parent it could have been cut from
C6_Witness ==
    /\ last.op \in {"move_node", "swap_nodes"}
    /\ last.res \in HandleErrors
    /\ last.bad = 2
    /\ \E n \in LiveSet(core_tree) : parent(core_tree, n) # None

\* C7: after any successful move_node (ToParent or ToRoot, n = p and
\* n = root included) no live node is its own ancestor.
C7_MoveAcyclic ==
    (last.op = "move_node" /\ last.res = "Ok") => NoParentCycle(core_tree)

\* C8: after swap_nodes(a, b, ChildrenOnly) on an ancestor/descendant pair
\* at any distance (in a tree with sound links), neither a nor b is
\* reachable from itself through children lists.
C8_NoSelfChild ==
    [][(/\ WellFormed(core_tree)
        /\ last'.op = "swap_nodes" /\ last'.behavior = "ChildrenOnly"
        /\ last'.res = "Ok"
        /\ \/ last'.first.index \in Ancestors(core_tree, last'.second.index)
           \/ last'.second.index \in Ancestors(core_tree, last'.first.index))
       => /\ last'.first.index \notin Descendants(core_tree', last'.first.index)
          /\ last'.second.index \notin Descendants(core_tree', last'.second.index)]_vars

\* C9: in every state reachable through public operations, orphans
\* included, every insert, remove, move_node and swap_nodes call whose
\* handles pass validation completes normally.  Stated for calls made on a
\* tree with sound links: none of them aborts.
C9_NeverAborts == [][WellFormed(core_tree) => last'.res # "Abort"]_vars

\* C10: move_node(h, ToRoot) with h already the root leaves the tree
\* unchanged.
C10_RootToRootNoop ==
    [][(/\ last'.op = "move_node" /\ last'.behavior = "ToRoot" /\ last'.res = "Ok"
        /\ core_tree.root = last'.first.index)
       => core_tree' = core_tree]_vars

\* C11: after a successful move_node(h, ToRoot) with h valid and different
\* from the current root: the root is h, h has no parent, h's former parent
\* no longer lists h, the previous root (if one existed) has parent h and
\* is the last entry of h.children after h's former children; if no root
\* existed, h's children are unchanged.
C11_MoveToRoot ==
    [][(/\ Ok(core_tree)
        /\ last'.op = "move_node" /\ last'.behavior = "ToRoot" /\ last'.res = "Ok"
        /\ core_tree.root # last'.first.index)
       => LET h == last'.first.index
              r == core_tree.root
              p == parent(core_tree, h)
          IN /\ core_tree'.root = h
             /\ parent(core_tree', h) = None
             /\ p # None => ~Contains(children(core_tree', p), h)
             /\ r # None => /\ parent(core_tree', r) = h
                            /\ children(core_tree', h) = Append(children(core_tree, h), r)
             /\ r = None => children(core_tree', h) = children(core_tree, h)]_vars

\* C12: downward move.  For a successful move_node(n, ToParent(p)) where n
\* is a proper ancestor of p and c is the child of n on the path to p:
\* afterwards c has n's former parent as parent and is listed by it (c is
\* parentless when n had none, and is the root when n was the root),
\* n.parent is p, n is the last entry of p.children, and n's children are
\* its former children without c.
C12_MoveDown ==
    [][(/\ Ok(core_tree)
        /\ last'.op = "move_node" /\ last'.behavior = "ToParent" /\ last'.res = "Ok"
        /\ last'.first.index # last'.second.index
        /\ last'.first.index \in Ancestors(core_tree, last'.second.index))
       => LET n  == last'.first.index
              p  == last'.second.index
              np == parent(core_tree, n)
              c  == find_subtree_root_between_ids(core_tree, p, n)
          IN /\ IF core_tree.root = n
                THEN parent(core_tree', c) = None /\ core_tree'.root = c
                ELSE /\ parent(core_tree', c) = np
                     /\ np # None => Contains(children(core_tree', np), c)
             /\ parent(core_tree', n) = p
             /\ Len(children(core_tree', p)) > 0
             /\ children(core_tree', p)[Len(children(core_tree', p))] = n
             /\ children(core_tree', n) = Retain(children(core_tree, n), c)]_vars

\* C13: plain move.  For a successful move_node(n, ToParent(p)) where n is
\* not an ancestor of p and n # p: afterwards n.parent is p, n appears
\* exactly once in p.children, as its last entry, n's former parent (if
\* any; when it is p itself, n is listed only once, last) no longer lists
\* n, n's children are unchanged, and no other node's parent or children
\* change.
C13_MovePlain ==
    [][(/\ Ok(core_tree)
        /\ last'.op = "move_node" /\ last'.behavior = "ToParent" /\ last'.res = "Ok"
        /\ last'.first.index # last'.second.index
        /\ last'.first.index \notin Ancestors(core_tree, last'.second.index))
       => LET n  == last'.first.index
              p  == last'.second.index
              np == parent(core_tree, n)
          IN /\ parent(core_tree', n) = p
             /\ children(core_tree', p) = Append(Retain(children(core_tree, p), n), n)
             /\ (np # None /\ np # p) => ~Contains(children(core_tree', np), n)
             /\ children(core_tree', n) = children(core_tree, n)
             /\ parent(core_tree', p) = parent(core_tree, p)
             /\ LiveSet(core_tree') = LiveSet(core_tree)
             /\ \A m \in LiveSet(core_tree) \ {n, p} :
                  /\ parent(core_tree', m) = parent(core_tree, m)
                  /\ children(core_tree', m) =
                       IF m = np THEN Retain(children(core_tree, m), n)
                       ELSE children(core_tree, m)]_vars

\* C14: after a successful remove(h, LiftChildren) where h has parent p: h
\* is no longer live; p.children is p's former children with h removed,
\* followed by h's former children in their order; every former child of h
\* has parent p; the root is unchanged; no other node's links change.
C14_RemoveLift ==
    [][(/\ Ok(core_tree)
        /\ last'.op = "remove" /\ last'.behavior = "LiftChildren" /\ last'.res = "Ok"
        /\ parent(core_tree, last'.first.index) # None)
       => LET h  == last'.first.index
              p  == parent(core_tree, h)
              cs == children(core_tree, h)
          IN /\ ~Live(core_tree', h)
             /\ children(core_tree', p) = Retain(children(core_tree, p), h) \o cs
             /\ \A c \in Range(cs) : parent(core_tree', c) = p
             /\ core_tree'.root = core_tree.root
             /\ parent(core_tree', p) = parent(core_tree, p)
             /\ LiveSet(core_tree') = LiveSet(core_tree) \ {h}
             /\ \A m \in LiveSet(core_tree) \ {h, p} :
                  /\ children(core_tree', m) = children(core_tree, m)
                  /\ m \notin Range(cs) => parent(core_tree', m) = parent(core_tree, m)]_vars

\* C15: after a successful remove(h, OrphanChildren): h is no longer live;
\* every former child of h is still live, has no parent, is listed by no
\* node and keeps its own children list; if h had a parent, that parent's
\* children list is its former list without h.
C15_RemoveOrphan ==
    [][(/\ Ok(core_tree)
        /\ last'.op = "remove" /\ last'.behavior = "OrphanChildren" /\ last'.res = "Ok")
       => LET h  == last'.first.index
              p  == parent(core_tree, h)
              cs == children(core_tree, h)
          IN /\ ~Live(core_tree', h)
             /\ \A c \in Range(cs) :
                  /\ Live(core_tree', c)
                  /\ parent(core_tree', c) = None
                  /\ \A m \in LiveSet(core_tree') : ~Contains(children(core_tree', m), c)
                  /\ children(core_tree', c) = children(core_tree, c)
             /\ p # None => children(core_tree', p) = Retain(children(core_tree, p), h)]_vars

\* C16: after a successful remove(h, DropChildren): h and every former
\* descendant of h are no longer live, and every node outside h's subtree
\* is still live with unchanged payload and parent, and with unchanged
\* children except that h's former parent no longer lists h.
C16_RemoveDrop ==
    [][(/\ Ok(core_tree)
        /\ last'.op = "remove" /\ last'.behavior = "DropChildren" /\ last'.res = "Ok")
       => LET h   == last'.first.index
              p   == parent(core_tree, h)
              sub == {h} \cup Descendants(core_tree, h)
          IN /\ \A d \in sub :
                  /\ ~Live(core_tree', d)
                  /\ core_validate_node_id(core_tree', NodeId(TreeId, d)) # "Ok"
             /\ \A m \in LiveSet(core_tree) \ sub :
                  /\ Live(core_tree', m)
                  /\ core_tree'.nodes[m + 1].data = core_tree.nodes[m + 1].data
                  /\ parent(core_tree', m) = parent(core_tree, m)
                  /\ children(core_tree', m) =
                       IF m = p THEN Retain(children(core_tree, m), h)
                       ELSE children(core_tree, m)]_vars

\* C17: after a successful remove(h, mode), for each of the three modes,
\* root_node_id() is None if h was the root and is unchanged otherwise.
C17_RemoveRoot ==
    [][(Ok(core_tree) /\ last'.op = "remove" /\ last'.res = "Ok")
       => core_tree'.root =
            IF core_tree.root = last'.first.index THEN None ELSE core_tree.root]_vars

\* C18: the node returned by a successful remove (any mode) carries the
\* removed node's payload, has no parent and has an empty children list,
\* whatever links it had in the tree.
C18_ReturnedNodeClean ==
    [][(Ok(core_tree) /\ last'.op = "remove" /\ last'.res = "Ok")
       => /\ last'.ret.data = core_tree.nodes[last'.first.index + 1].data
          /\ last'.ret.parent = None
          /\ last'.ret.children = <<>>]_vars

\* C19: for a target h without a parent (the root or an orphan), a
\* successful remove(h, LiftChildren) gives the tree and the returned node
\* that remove(h, OrphanChildren) gives from the same starting state.
C19_LiftDegradesToOrphan ==
    [][(/\ Ok(core_tree)
        /\ last'.op = "remove" /\ last'.behavior = "LiftChildren" /\ last'.res = "Ok"
        /\ parent(core_tree, last'.first.index) = None)
       => /\ remove(core_tree, last'.first, "OrphanChildren").res = "Ok"
          /\ core_tree' = remove(core_tree, last'.first, "OrphanChildren").tree
          /\ last'.ret = remove_returns(core_tree, last'.first, "OrphanChildren")]_vars

\* C20: insert(node, AsRoot) always succeeds; afterwards the root is the
\* returned handle and the new node has no parent; if a root existed, the
\* new node's children list is exactly [old root], the old root's parent is
\* the new handle and every other link is unchanged; if none existed, the
\* new node has no children.
C20_InsertAsRoot ==
    [][(Ok(core_tree) /\ last'.op = "insert" /\ last'.behavior = "AsRoot")
       => LET r == core_tree.root
              h == last'.ret
          IN /\ last'.res = "Ok"
             /\ ~Live(core_tree, h) /\ Live(core_tree', h)
             /\ core_tree'.root = h
             /\ parent(core_tree', h) = None
             /\ children(core_tree', h) = IF r # None THEN <<r>> ELSE <<>>
             /\ r # None => parent(core_tree', r) = h
             /\ \A m \in LiveSet(core_tree) :
                  /\ children(core_tree', m) = children(core_tree, m)
                  /\ m # r => parent(core_tree', m) = parent(core_tree, m)]_vars

\* a node that had a parent and children was removed with LiftChildren: its
\* parent (the root) now lists the lifted children, and the node handed
\* back is not the builder's root
C18_Witness ==
    /\ last.op = "remove" /\ last.behavior = "LiftChildren" /\ last.res = "Ok"
    /\ last.ret.data # Payload
    /\ core_tree.root # None
    /\ core_tree.root # last.first.index
    /\ Len(children(core_tree, core_tree.root)) >= 2
    /\ ~Live(core_tree, last.first.index)

\* the root was removed with LiftChildren and left behind a parentless
\* node that has children of its own
C19_Witness ==
    /\ last.op = "remove" /\ last.behavior = "LiftChildren" /\ last.res = "Ok"
    /\ core_tree.root = None
    /\ \E n \in LiveSet(core_tree) :
         parent(core_tree, n) = None /\ Len(children(core_tree, n)) > 0

\* a new root was put above an old root that has two children
C20_Witness ==
    /\ last.op = "insert" /\ last.behavior = "AsRoot" /\ last.res = "Ok"
    /\ core_tree.root = last.ret
    /\ Len(children(core_tree, last.ret)) = 1
    /\ Len(children(core_tree, children(core_tree, last.ret)[1])) >= 2

\* C21: a successful insert(node, UnderNode(p)) returns a new live handle c
\* with c.parent = p, c the last entry of p.children after the earlier
\* entries in their order, c without children, and the root and every other
\* node's links unchanged.
C21_InsertUnderNode ==
    [][(/\ Ok(core_tree)
        /\ last'.op = "insert" /\ last'.behavior = "UnderNode" /\ last'.res = "Ok")
       => LET c == last'.ret
              p == last'.first.index
          IN /\ ~Live(core_tree, c) /\ Live(core_tree', c)
             /\ parent(core_tree', c) = p
             /\ children(core_tree', p) = Append(children(core_tree, p), c)
             /\ children(core_tree', c) = <<>>
             /\ core_tree'.root = core_tree.root
             /\ LiveSet(core_tree') = LiveSet(core_tree) \cup {c}
             /\ \A m \in LiveSet(core_tree) :
                  /\ parent(core_tree', m) = parent(core_tree, m)
                  /\ m # p => children(core_tree', m) = children(core_tree, m)]_vars

\* a node was inserted under a non-root parent that already had a child
C21_Witness ==
    /\ last.op = "insert" /\ last.behavior = "UnderNode" /\ last.res = "Ok"
    /\ parent(core_tree, last.ret) = last.first.index
    /\ Len(children(core_tree, last.first.index)) >= 2
    /\ parent(core_tree, last.first.index) # None
    /\ WellFormed(core_tree)

\* C22: a successful swap_nodes(a, b, TakeChildren) for two distinct nodes
\* that both have a parent, neither an ancestor of the other: each takes the
\* index the other had in the other's former parent's children list (under
\* a shared parent the two list positions swap), their parent fields are
\* exchanged, each keeps its children, and no other link changes.
C22_SwapTakeUnrelated ==
    [][(/\ Ok(core_tree)
        /\ last'.op = "swap_nodes" /\ last'.behavior = "TakeChildren" /\ last'.res = "Ok"
        /\ last'.first.index # last'.second.index
        /\ parent(core_tree, last'.first.index) # None
        /\ parent(core_tree, last'.second.index) # None
        /\ last'.first.index \notin Ancestors(core_tree, last'.second.index)
        /\ last'.second.index \notin Ancestors(core_tree, last'.first.index))
       => LET a  == last'.first.index
              b  == last'.second.index
              pa == parent(core_tree, a)
              pb == parent(core_tree, b)
              ca == children(core_tree, pa)
              cb == children(core_tree, pb)
          IN /\ parent(core_tree', a) = pb
             /\ parent(core_tree', b) = pa
             /\ IF pa = pb
                THEN children(core_tree', pa) =
                       [ca EXCEPT ![Position(ca, a)] = b, ![Position(ca, b)] = a]
                ELSE /\ children(core_tree', pa) = [ca EXCEPT ![Position(ca, a)] = b]
                     /\ children(core_tree', pb) = [cb EXCEPT ![Position(cb, b)] = a]
             /\ children(core_tree', a) = children(core_tree, a)
             /\ children(core_tree', b) = children(core_tree, b)
             /\ core_tree'.root = core_tree.root
             /\ LiveSet(core_tree') = LiveSet(core_tree)
             /\ \A m \in LiveSet(core_tree) \ {a, b} :
                  /\ parent(core_tree', m) = parent(core_tree, m)
                  /\ m \notin {pa, pb} => children(core_tree', m) = children(core_tree, m)]_vars

\* C23: a successful swap_nodes(a, b, TakeChildren) where u is the ancestor
\* and l the descendant among a and b: l.parent is u's former parent and l
\* sits at u's former index in that parent's list (l is the root if u was),
\* l's former parent no longer lists l, u.parent is l, u is the last entry
\* of l.children after l's former children, and u keeps its former children
\* other than l.
C23_SwapTakeRelated ==
    [][(/\ Ok(core_tree)
        /\ last'.op = "swap_nodes" /\ last'.behavior = "TakeChildren" /\ last'.res = "Ok"
        /\ last'.first.index # last'.second.index
        /\ \/ last'.first.index \in Ancestors(core_tree, last'.second.index)
           \/ last'.second.index \in Ancestors(core_tree, last'.first.index))
       => LET a  == last'.first.index
              b  == last'.second.index
              l  == IF b \in Ancestors(core_tree, a) THEN a ELSE b
              u  == IF b \in Ancestors(core_tree, a) THEN b ELSE a
              pu == parent(core_tree, u)
              pl == parent(core_tree, l)
              cu == children(core_tree, pu)
          IN /\ parent(core_tree', l) = pu
             /\ pu # None => children(core_tree', pu) = [cu EXCEPT ![Position(cu, u)] = l]
             /\ core_tree'.root = IF core_tree.root = u THEN l ELSE core_tree.root
             /\ ~Contains(children(core_tree', pl), l)
             /\ parent(core_tree', u) = l
             /\ children(core_tree', l) = Append(children(core_tree, l), u)
             /\ children(core_tree', u) = Retain(children(core_tree, u), l)]_vars

\* two nodes with different parents, neither above the other, were swapped
\* in a tree with sound links
C22_Witness ==
    /\ last.op = "swap_nodes" /\ last.behavior = "TakeChildren" /\ last.res = "Ok"
    /\ WellFormed(core_tree)
    /\ LET a == last.first.index
           b == last.second.index
       IN /\ a # b
          /\ parent(core_tree, a) # None /\ parent(core_tree, b) # None
          /\ parent(core_tree, a) # parent(core_tree, b)
          /\ a \notin Ancestors(core_tree, b) /\ b \notin Ancestors(core_tree, a)

\* C24: a successful swap_nodes(a, b, LeaveChildren) on two distinct nodes
\* yields the original tree with the two handles exchanged: with s the map
\* that swaps a and b and fixes every other handle (and None), for every
\* live node x the new parent of s(x) is s(old parent of x), the new
\* children list of s(x) is the old list of x mapped through s in order,
\* and the new root is s(old root).
C24_SwapLeaveIsRelabelling ==
    [][(/\ Ok(core_tree)
        /\ last'.op = "swap_nodes" /\ last'.behavior = "LeaveChildren" /\ last'.res = "Ok"
        /\ last'.first.index # last'.second.index)
       => LET a == last'.first.index
              b == last'.second.index
              s(x) == IF x = a THEN b ELSE IF x = b THEN a ELSE x
          IN /\ core_tree'.root = s(core_tree.root)
             /\ LiveSet(core_tree') = LiveSet(core_tree)
             /\ \A x \in LiveSet(core_tree) :
                  /\ parent(core_tree', s(x)) = s(parent(core_tree, x))
                  /\ children(core_tree', s(x)) =
                       [k \in 1..Len(children(core_tree, x)) |-> s(children(core_tree, x)[k])]]_vars

\* C25: a successful swap_nodes(a, b, ChildrenOnly) for two distinct nodes,
\* neither an ancestor of the other: a's children list becomes b's former
\* list and b's becomes a's (order kept), every moved child's parent is its
\* new owner, a and b keep their parents, every other children list (so
\* their positions too) and the root are unchanged.
C25_SwapChildrenUnrelated ==
    [][(/\ Ok(core_tree)
        /\ last'.op = "swap_nodes" /\ last'.behavior = "ChildrenOnly" /\ last'.res = "Ok"
        /\ last'.first.index # last'.second.index
        /\ last'.first.index \notin Ancestors(core_tree, last'.second.index)
        /\ last'.second.index \notin Ancestors(core_tree, last'.first.index))
       => LET a == last'.first.index
              b == last'.second.index
          IN /\ children(core_tree', a) = children(core_tree, b)
             /\ children(core_tree', b) = children(core_tree, a)
             /\ \A c \in Range(children(core_tree, b)) : parent(core_tree', c) = a
             /\ \A c \in Range(children(core_tree, a)) : parent(core_tree', c) = b
             /\ parent(core_tree', a) = parent(core_tree, a)
             /\ parent(core_tree', b) = parent(core_tree, b)
             /\ core_tree'.root = core_tree.root
             /\ \A m \in LiveSet(core_tree) \ {a, b} :
                  children(core_tree', m) = children(core_tree, m)]_vars

\* C26: a successful swap_nodes(a, b, ChildrenOnly) where u is the ancestor
\* and l the descendant among a and b: u.children is l's former children
\* followed by l, l.children is u's former children without l (order
\* kept), l.parent is u, every node in either list has that list's owner
\* as parent, and u's parent and its parent's children list are unchanged.
C26_SwapChildrenRelated ==
    [][(/\ Ok(core_tree)
        /\ last'.op = "swap_nodes" /\ last'.behavior = "ChildrenOnly" /\ last'.res = "Ok"
        /\ last'.first.index # last'.second.index
        /\ \/ last'.first.index \in Ancestors(core_tree, last'.second.index)
           \/ last'.second.index \in Ancestors(core_tree, last'.first.index))
       => LET a  == last'.first.index
              b  == last'.second.index
              l  == IF b \in Ancestors(core_tree, a) THEN a ELSE b
              u  == IF b \in Ancestors(core_tree, a) THEN b ELSE a
              pu == parent(core_tree, u)
          IN /\ children(core_tree', u) = Append(children(core_tree, l), l)
             /\ children(core_tree', l) = Retain(children(core_tree, u), l)
             /\ parent(core_tree', l) = u
             /\ \A c \in Range(children(core_tree', u)) : parent(core_tree', c) = u
             /\ \A c \in Range(children(core_tree', l)) : parent(core_tree', c) = l
             /\ parent(core_tree', u) = pu
             /\ pu # None => children(core_tree', pu) = children(core_tree, pu)]_vars

\* C27: in every state reachable through public operations the ancestors /
\* ancestor_ids traversal started from any valid handle terminates, never
\* yields the start node, yields the chain of parents ending at a
\* parentless node, and has length at most the number of live nodes.
C27_AncestorsTerminate ==
    Ok(core_tree) =>
      \A n \in LiveSet(core_tree) :
        LET s == ancestor_ids(core_tree, n) IN
        /\ ~Contains(s, Diverged) /\ ~Contains(s, Panicked)
        /\ ~Contains(s, n)
        /\ Len(s) <= Cardinality(LiveSet(core_tree))
        /\ \A k \in 1..Len(s) :
             s[k] = parent(core_tree, IF k = 1 THEN n ELSE s[k - 1])
        /\ parent(core_tree, IF Len(s) = 0 THEN n ELSE s[Len(s)]) = None

\* C28: in every state reachable through public operations pre-order,
\* post-order and level-order traversal started from any valid handle each
\* terminate and yield exactly the start node and the nodes reachable from
\* it through children lists, each exactly once.
C28_TraversalsCoverSubtree ==
    Ok(core_tree) =>
      \A n \in LiveSet(core_tree) :
        \A s \in {traverse_pre_order(core_tree, n), traverse_post_order(core_tree, n),
                  traverse_level_order(core_tree, n)} :
          /\ ~Contains(s, Diverged) /\ ~Contains(s, Panicked)
          /\ Range(s) = {n} \cup Descendants(core_tree, n)
          /\ Len(s) = Cardinality(Range(s))

\* C29: slot reuse is LIFO.  A successful insertion into the Tree when the
\* free list is non-empty returns the most recently freed index, fills that
\* slot and removes the index from the free list; when the free list is
\* empty it returns the previous slot count and grows the slot sequence by
\* one.
C29_SlotReuseLifo ==
    [][(/\ Ok(tree)
        /\ last'.op \in {"set_root", "insert_with_parent"} /\ last'.res = "Ok")
       => LET n == Len(tree.free_ids) IN
          /\ ~Live(tree, last'.ret) /\ Live(tree', last'.ret)
          /\ \A i \in 0..(Len(tree.nodes) - 1) :
               i # last'.ret => (Live(tree', i) <=> Live(tree, i))
          /\ IF n > 0
             THEN /\ last'.ret = tree.free_ids[n]
                  /\ tree'.free_ids = SubSeq(tree.free_ids, 1, n - 1)
                  /\ Len(tree'.nodes) = Len(tree.nodes)
             ELSE /\ last'.ret = Len(tree.nodes)
                  /\ tree'.free_ids = <<>>
                  /\ Len(tree'.nodes) = Len(tree.nodes) + 1]_vars

\* an insertion reused a freed index while another freed index stayed on
\* the free list
C29_Witness ==
    /\ last.op \in {"set_root", "insert_with_parent"} /\ last.res = "Ok"
    /\ NodeId(TreeId, last.ret) \in stale
    /\ Len(tree.free_ids) >= 1
    /\ Live(tree, last.ret)

\* C30: arena well-formedness after every public operation of the Tree:
\* each allocated slot is either occupied, or vacant and listed exactly once
\* in the free list; the free list holds only vacant, in-range indices; the
\* slot count never decreases, and no handle the tree ever issued (live or
\* kept after removal) makes validation hit the out-of-range abort.
C30_ArenaWellFormed ==
    /\ [](Ok(tree) =>
            /\ \A i \in 0..(Len(tree.nodes) - 1) :
                 Cardinality({k \in 1..Len(tree.free_ids) : tree.free_ids[k] = i})
                   = IF Live(tree, i) THEN 0 ELSE 1
            /\ \A k \in 1..Len(tree.free_ids) :
                 InRange(tree, tree.free_ids[k]) /\ ~Live(tree, tree.free_ids[k])
            /\ \A h \in OwnHandles(tree) \cup stale :
                 tree_is_valid_node_id(tree, h) # "Panic")
    /\ [][Len(tree'.nodes) >= Len(tree.nodes)]_vars

\* two slots are vacant and on the free list while another is occupied,
\* and the caller still holds the handles of the removed nodes
C30_Witness ==
    /\ Ok(tree)
    /\ Len(tree.free_ids) >= 2
    /\ Cardinality(stale) >= 2
    /\ \E i \in 0..(Len(tree.nodes) - 1) : Live(tree, i)
    /\ last.op \in {"remove_node_lift_children", "remove_node_orphan_children"}
    /\ last.res = "Ok"

\* C31: in every state reachable through public operations the upward walk
\* of find_subtree_root_between_ids ends for every pair of valid handles,
\* and so every move_node and swap_nodes call returns.
C31_WalkTerminates ==
    /\ Ok(core_tree) =>
         \A a \in LiveSet(core_tree) : \A b \in LiveSet(core_tree) :
             find_subtree_root_between_ids(core_tree, a, b) # Diverged
    /\ last.op \in {"move_node", "swap_nodes"} => core_tree.fault # "diverge"

\* C32: after any sequence of public operations the root handle, every
\* live node's parent field and every entry of every live node's children
\* list denote a live node; in particular after a successful remove(h, any
\* mode) h is in no children list and in no parent field.
C32_NoDanglingHandles ==
    /\ Ok(core_tree) => NoDanglingLinks(core_tree)
    /\ (last.op = "remove" /\ last.res = "Ok") =>
         \A n \in LiveSet(core_tree) :
             /\ parent(core_tree, n) # last.first.index
             /\ ~Contains(children(core_tree, n), last.first.index)

\* C33: Tree (src/src/tree.rs): after a successful
\* remove_node_lift_children(h) where h has parent p, every former child c
\* of h has parent p and is contained in p's children list.
C33_TreeLiftLinksChildren ==
    [][(/\ Ok(tree)
        /\ last'.op = "remove_node_lift_children" /\ last'.res = "Ok"
        /\ parent(tree, last'.first.index) # None)
       => LET h == last'.first.index
              p == parent(tree, h)
          IN \A c \in Range(children(tree, h)) :
                 /\ parent(tree', c) = p
                 /\ Contains(children(tree', p), c)]_vars

\* C34: Tree (src/src/tree.rs): after any sequence of set_root,
\* insert_with_parent, remove_node_lift_children and
\* remove_node_orphan_children, the root handle when present denotes a
\* live node with no parent; in particular removing the root clears the
\* root, and a later set_root never makes the new root its own parent or
\* child.
C34_TreeRootLiveParentless ==
    Ok(tree) =>
        /\ RootIsParentless(tree)
        /\ tree.root # None => ~Contains(children(tree, tree.root), tree.root)

\* C35: move_node and swap_nodes (all modes) neither create nor destroy
\* nodes and never move payloads: the set of live handles, the free list
\* and the payload stored at each handle are the same before and after
\* every such call.
C35_MoveSwapKeepNodes ==
    [][(last'.op \in {"move_node", "swap_nodes"})
       => /\ Len(core_tree'.nodes) = Len(core_tree.nodes)
          /\ LiveSet(core_tree') = LiveSet(core_tree)
          /\ core_tree'.free_ids = core_tree.free_ids
          /\ \A i \in LiveSet(core_tree) :
                 core_tree'.nodes[i + 1].data = core_tree.nodes[i + 1].data]_vars

\* a successful swap of two different nodes, one of them the root, in a
\* tree with sound links that also has a vacant slot
C35_Witness ==
    /\ last.op = "swap_nodes" /\ last.res = "Ok"
    /\ last.first # last.second
    /\ core_tree.root \in {last.first.index, last.second.index}
    /\ Len(core_tree.free_ids) > 0
    /\ Cardinality(LiveSet(core_tree)) >= 3
    /\ WellFormed(core_tree)

\* C36: swap_nodes(a, b, LeaveChildren) applied twice in a row with the
\* same two valid handles restores exactly the original tree: root, every
\* parent field and every children list, order included.
C36_SwapLeaveInvolution ==
    [][(/\ Ok(core_tree)
        /\ last'.op = "swap_nodes" /\ last'.behavior = "LeaveChildren"
        /\ last'.res = "Ok")
       => LET again == swap_nodes(core_tree', last'.first, last'.second, "LeaveChildren")
          IN again.res = "Ok" /\ again.tree = core_tree]_vars

\* C37: swap_nodes(a, b, TakeChildren) on two distinct parentless nodes (the
\* root and an orphan, or two orphans) changes nothing at all: root, both
\* nodes' links and every other link stay as they were.  The contrast with
\* LeaveChildren is stated for a pair in a tree with sound links: there
\* LeaveChildren hands the root role to the other node.
C37_SwapTakeParentless ==
    [][(/\ Ok(core_tree)
        /\ last'.op = "swap_nodes" /\ last'.res = "Ok"
        /\ last'.first # last'.second
        /\ parent(core_tree, last'.first.index) = None
        /\ parent(core_tree, last'.second.index) = None)
       => LET a == last'.first.index
              b == last'.second.index
          IN /\ last'.behavior = "TakeChildren" => core_tree' = core_tree
             /\ (last'.behavior = "LeaveChildren" /\ WellFormed(core_tree)
                 /\ core_tree.root = a) => core_tree'.root = b
             /\ (last'.behavior = "LeaveChildren" /\ WellFormed(core_tree)
                 /\ core_tree.root = b) => core_tree'.root = a]_vars

\* TakeChildren was applied to the root and an orphan that has a child, in
\* a tree with sound links, and left the root where LeaveChildren on the
\* same pair moves it
C37_Witness ==
    /\ last.op = "swap_nodes" /\ last.behavior = "TakeChildren" /\ last.res = "Ok"
    /\ last.first # last.second
    /\ parent(core_tree, last.first.index) = None
    /\ parent(core_tree, last.second.index) = None
    /\ core_tree.root \in {last.first.index, last.second.index}
    /\ \E n \in {last.first.index, last.second.index} :
          n # core_tree.root /\ Len(children(core_tree, n)) > 0
    /\ WellFormed(core_tree)
    /\ swap_nodes(core_tree, last.first, last.second, "LeaveChildren").tree.root
          # core_tree.root

\* C38: on an acyclic tree (no live node is its own ancestor and every
\* parent field names a live node),
\* find_subtree_root_between_ids(lower, upper) returns the child of upper
\* on the parent path from lower to upper (lower itself when upper is
\* lower's parent) if upper is a proper ancestor of lower, and None
\* otherwise: also when lower = upper, when lower is parentless and when
\* the arguments are given in the inverted order.
C38_FindSubtreeRoot ==
    (/\ Ok(core_tree) /\ NoParentCycle(core_tree)
     /\ \A n \in LiveSet(core_tree) :
            parent(core_tree, n) # None => Live(core_tree, parent(core_tree, n))) =>
        \A lower \in LiveSet(core_tree) : \A upper \in LiveSet(core_tree) :
            LET path == {lower} \cup Ancestors(core_tree, lower)
                found == find_subtree_root_between_ids(core_tree, lower, upper)
            IN IF upper \in Ancestors(core_tree, lower)
               THEN found \in path /\ parent(core_tree, found) = upper
               ELSE found = None

\* a tree with sound links in which the walk passes at least one node
\* before it finds the child of upper, and where the inverted order and a
\* parentless lower both give None
C38_Witness ==
    /\ WellFormed(core_tree)
    /\ \E lower \in LiveSet(core_tree) : \E upper \in LiveSet(core_tree) :
          /\ find_subtree_root_between_ids(core_tree, lower, upper) \notin {None, lower}
          /\ find_subtree_root_between_ids(core_tree, upper, lower) = None
          /\ parent(core_tree, upper) = None
          /\ find_subtree_root_between_ids(core_tree, upper, upper) = None
====
